---------------------------- MODULE Spec2Model ----------------------------
(***************************************************************************)
(* A model of the MLB FastMCP server of src/main.py: the tool registry     *)
(* built by the @mcp.tool decorators, the pydantic parameter schemas, the  *)
(* tool handlers (one outbound GET each) and the handling of the upstream  *)
(* response (raise_for_status, then json()).                               *)
(*                                                                         *)
(* Values.  A payload value, a validated field and a query parameter are   *)
(* records [t, n, s]: t is the Python type ("int", "str", "bool", "null"), *)
(* n the number (or 1/0 for a bool) and s the text of a str.  A text is a  *)
(* sequence of lexemes: every character the code or the URL syntax looks   *)
(* at on its own ("/", "?", "#", a digit of a number, a letter of a        *)
(* position code) is a lexeme of its own, other runs of characters are     *)
(* kept as one lexeme.                                                     *)
(***************************************************************************)
EXTENDS Integers, Sequences, FiniteSets, TLC

VARIABLES
  registry,   \* the names the decorators registered, fixed at import time
  calls,      \* per dispatch: its position, its input and its outcome
  requests,   \* the outbound requests handed to http_client.get, in order
  cookies     \* the cookies the shared http_client keeps between requests

vars == <<registry, calls, requests, cookies>>

---------------------------------------------------------------------------
(* Python values *)

I(n) == [t |-> "int", n |-> n, s |-> <<>>]
S(s) == [t |-> "str", n |-> 0, s |-> s]
B(b) == [t |-> "bool", n |-> IF b THEN 1 ELSE 0, s |-> <<>>]
Null == [t |-> "null", n |-> 0, s |-> <<>>]

EmptyDict == [k \in {} |-> Null]

\* d[k] = v on a dict: the new value replaces an entry of the same key.
SetItem(d, k, v) == [x \in DOMAIN d \cup {k} |-> IF x = k THEN v ELSE d[x]]

\* del d[k], also when k is no key of d.
DelItem(d, k) == [x \in DOMAIN d \ {k} |-> d[x]]

Digit(c) ==
  CASE c = "0" -> 0 [] c = "1" -> 1 [] c = "2" -> 2 [] c = "3" -> 3
    [] c = "4" -> 4 [] c = "5" -> 5 [] c = "6" -> 6 [] c = "7" -> 7
    [] c = "8" -> 8 [] c = "9" -> 9 [] OTHER -> -1

DigitChar(d) ==
  CASE d = 0 -> "0" [] d = 1 -> "1" [] d = 2 -> "2" [] d = 3 -> "3"
    [] d = 4 -> "4" [] d = 5 -> "5" [] d = 6 -> "6" [] d = 7 -> "7"
    [] d = 8 -> "8" [] d = 9 -> "9"

AllDigits(s) == Len(s) > 0 /\ \A i \in 1..Len(s) : Digit(s[i]) >= 0

RECURSIVE ParseInt(_)
ParseInt(s) ==
  IF Len(s) = 0 THEN 0
  ELSE 10 * ParseInt(SubSeq(s, 1, Len(s) - 1)) + Digit(s[Len(s)])

RECURSIVE DecimalDigits(_)
DecimalDigits(n) ==
  IF n < 10 THEN <<DigitChar(n)>>
  ELSE DecimalDigits(n \div 10) \o <<DigitChar(n % 10)>>

\* str(v), as an f-string placeholder formats a value.
Fmt(v) ==
  CASE v.t = "str" -> v.s
    [] v.t = "int" -> IF v.n < 0 THEN <<"-">> \o DecimalDigits(-v.n)
                      ELSE DecimalDigits(v.n)
    [] v.t = "bool" -> IF v.n = 1 THEN <<"True">> ELSE <<"False">>
    [] v.t = "null" -> <<"None">>

UpperChar(c) ==
  CASE c = "p" -> "P" [] c = "b" -> "B" [] c = "s" -> "S" [] c = "c" -> "C"
    [] OTHER -> c

\* str.upper(), on the letters the texts of the model are made of.
Upper(s) == [i \in DOMAIN s |-> UpperChar(s[i])]

Truthy(v) ==
  CASE v.t = "null" -> FALSE
    [] v.t = "str" -> Len(v.s) > 0
    [] OTHER -> v.n # 0

---------------------------------------------------------------------------
(* Tool input schemas *)

Fld(name, type, required, nullable, default) ==
  [name |-> name, type |-> type, required |-> required,
   nullable |-> nullable, default |-> default]

TeamsForYearInput ==
  << Fld("year", "int", TRUE, FALSE, Null) >>

TeamRosterInput ==
  << Fld("team_id", "str", TRUE, FALSE, Null),
     Fld("year", "int", TRUE, FALSE, Null) >>

PlayerStatsInput ==
  << Fld("player_id", "str", TRUE, FALSE, Null),
     Fld("year", "int", TRUE, FALSE, Null),
     Fld("position", "str", TRUE, FALSE, Null) >>

ScheduleByDateInput ==
  << Fld("date", "str", TRUE, FALSE, Null) >>

BoxscoreInput ==
  << Fld("game_pk", "int", TRUE, FALSE, Null),
     Fld("year", "int", TRUE, FALSE, Null),
     Fld("team_id", "str", TRUE, FALSE, Null),
     Fld("game_date", "str", TRUE, FALSE, Null) >>

StandingsInput ==
  << Fld("season", "int", TRUE, FALSE, Null),
     Fld("league_id", "int", TRUE, FALSE, Null) >>

PlayerBioInput ==
  << Fld("player_id", "str", TRUE, FALSE, Null) >>

TeamScheduleInput ==
  << Fld("team_id", "str", TRUE, FALSE, Null),
     Fld("season", "int", TRUE, FALSE, Null) >>

GameContentInput ==
  << Fld("game_pk", "int", TRUE, FALSE, Null) >>

LeagueLeadersInput ==
  << Fld("category", "str", TRUE, FALSE, Null),
     Fld("season", "int", TRUE, FALSE, Null) >>

AwardsInput ==
  << Fld("season", "int", TRUE, FALSE, Null) >>

VenuesInput ==
  << Fld("season", "int", TRUE, FALSE, Null) >>

AttendanceInput ==
  << Fld("season", "int", FALSE, TRUE, Null),
     Fld("teamId", "int", FALSE, TRUE, Null),
     Fld("date", "str", FALSE, TRUE, Null) >>

AwardWinnersInput ==
  << Fld("award_id", "str", TRUE, FALSE, Null),
     Fld("season", "int", TRUE, FALSE, Null) >>

DivisionsInput ==
  << Fld("season", "int", FALSE, TRUE, Null) >>

DraftInput ==
  << Fld("year", "int", FALSE, TRUE, Null),
     Fld("round", "int", FALSE, TRUE, Null),
     Fld("name", "str", FALSE, TRUE, Null),
     Fld("school", "str", FALSE, TRUE, Null),
     Fld("state", "str", FALSE, TRUE, Null),
     Fld("country", "str", FALSE, TRUE, Null),
     Fld("position", "str", FALSE, TRUE, Null),
     Fld("teamId", "int", FALSE, TRUE, Null),
     Fld("playerId", "int", FALSE, TRUE, Null),
     Fld("bisPlayerId", "int", FALSE, TRUE, Null),
     Fld("latest", "bool", FALSE, TRUE, B(FALSE)),
     Fld("prospects", "bool", FALSE, TRUE, B(FALSE)) >>

GameChangesInput ==
  << Fld("updatedSince", "str", TRUE, FALSE, Null),
     Fld("sportId", "int", FALSE, TRUE, I(1)),
     Fld("gameType", "str", FALSE, TRUE, Null),
     Fld("season", "int", FALSE, TRUE, Null),
     Fld("fields", "str", FALSE, TRUE, Null) >>

GameContextMetricsInput ==
  << Fld("gamePk", "int", TRUE, FALSE, Null),
     Fld("timecode", "str", FALSE, TRUE, Null) >>

GameLinescoreInput ==
  << Fld("gamePk", "str", TRUE, FALSE, Null),
     Fld("timecode", "str", FALSE, TRUE, Null) >>

GameUniformsInput ==
  << Fld("gamePks", "str", TRUE, FALSE, Null),
     Fld("fields", "str", FALSE, TRUE, Null) >>

GamePaceInput ==
  << Fld("season", "str", TRUE, FALSE, Null),
     Fld("teamIds", "str", FALSE, TRUE, Null),
     Fld("leagueIds", "str", FALSE, TRUE, Null),
     Fld("leagueListId", "str", FALSE, TRUE, Null),
     Fld("gameType", "str", FALSE, TRUE, Null),
     Fld("startDate", "str", FALSE, TRUE, Null),
     Fld("endDate", "str", FALSE, TRUE, Null),
     Fld("venueIds", "str", FALSE, TRUE, Null),
     Fld("orgType", "str", FALSE, TRUE, Null),
     Fld("includeChildren", "bool", FALSE, TRUE, Null),
     Fld("fields", "str", FALSE, TRUE, Null) >>

HighLowPlayerInput ==
  << Fld("sortStat", "str", TRUE, FALSE, Null),
     Fld("season", "str", TRUE, FALSE, Null),
     Fld("statGroup", "str", FALSE, TRUE, S(<<"hitting">>)),
     Fld("gameType", "str", FALSE, TRUE, Null),
     Fld("leagueId", "int", FALSE, TRUE, Null),
     Fld("sportIds", "str", FALSE, TRUE, S(<<"1">>)),
     Fld("teamId", "int", FALSE, TRUE, Null),
     Fld("limit", "int", FALSE, TRUE, I(5)) >>

HighLowTeamInput == HighLowPlayerInput

AllStarBallotInput ==
  << Fld("leagueId", "str", TRUE, FALSE, Null),
     Fld("season", "str", TRUE, FALSE, Null) >>

AllStarWriteInsInput == AllStarBallotInput

AllStarFinalVoteInput == AllStarBallotInput

PeopleFreeAgentsInput ==
  << Fld("leagueId", "str", TRUE, FALSE, Null),
     Fld("order", "str", FALSE, TRUE, Null),
     Fld("hydrate", "str", FALSE, TRUE, Null),
     Fld("fields", "str", FALSE, TRUE, Null),
     Fld("season", "str", TRUE, FALSE, Null) >>

JobsUmpiresInput ==
  << Fld("sportId", "str", FALSE, TRUE, S(<<"1">>)),
     Fld("date", "str", FALSE, TRUE, Null),
     Fld("fields", "str", FALSE, TRUE, Null) >>

JobsDatacastersInput == JobsUmpiresInput

JobsOfficialScorersInput ==
  << Fld("timecode", "str", FALSE, TRUE, Null),
     Fld("fields", "str", FALSE, TRUE, Null) >>

ScheduleTiedGamesInput ==
  << Fld("season", "str", TRUE, FALSE, Null),
     Fld("gameTypes", "str", FALSE, TRUE, Null),
     Fld("hydrate", "str", FALSE, TRUE, Null),
     Fld("fields", "str", FALSE, TRUE, Null) >>

SchedulePostseasonInput ==
  << Fld("gameTypes", "str", FALSE, TRUE, Null),
     Fld("seriesNumber", "str", FALSE, TRUE, Null),
     Fld("teamId", "int", FALSE, TRUE, Null),
     Fld("sportId", "int", FALSE, TRUE, Null),
     Fld("season", "str", FALSE, TRUE, Null),
     Fld("hydrate", "str", FALSE, TRUE, Null),
     Fld("fields", "str", FALSE, TRUE, Null) >>

SchedulePostseasonSeriesInput ==
  << Fld("gameTypes", "str", FALSE, TRUE, Null),
     Fld("seriesNumber", "str", FALSE, TRUE, Null),
     Fld("teamId", "int", FALSE, TRUE, Null),
     Fld("sportId", "int", FALSE, TRUE, Null),
     Fld("season", "str", FALSE, TRUE, Null),
     Fld("fields", "str", FALSE, TRUE, Null) >>

SeasonsInput ==
  << Fld("season", "str", FALSE, TRUE, Null),
     Fld("all", "bool", FALSE, TRUE, B(FALSE)),
     Fld("leagueId", "int", FALSE, TRUE, Null),
     Fld("divisionId", "int", FALSE, TRUE, Null),
     Fld("fields", "str", FALSE, TRUE, Null) >>

SeasonByIdInput ==
  << Fld("seasonId", "str", TRUE, FALSE, Null),
     Fld("fields", "str", FALSE, TRUE, Null) >>

MLBStatsInput ==
  << Fld("stats", "str", TRUE, FALSE, Null),
     Fld("group", "str", TRUE, FALSE, Null),
     Fld("playerPool", "str", FALSE, TRUE, Null),
     Fld("position", "str", FALSE, TRUE, Null),
     Fld("teamId", "int", FALSE, TRUE, Null),
     Fld("leagueId", "int", FALSE, TRUE, Null),
     Fld("sportIds", "str", FALSE, TRUE, S(<<"1">>)),
     Fld("gameType", "str", FALSE, TRUE, Null),
     Fld("season", "str", FALSE, TRUE, Null),
     Fld("sortStat", "str", FALSE, TRUE, Null),
     Fld("order", "str", FALSE, TRUE, Null),
     Fld("limit", "int", FALSE, TRUE, I(50)),
     Fld("offset", "int", FALSE, TRUE, I(0)),
     Fld("hydrate", "str", FALSE, TRUE, Null),
     Fld("fields", "str", FALSE, TRUE, Null),
     Fld("personId", "str", FALSE, TRUE, Null),
     Fld("metrics", "str", FALSE, TRUE, Null),
     Fld("startDate", "str", FALSE, TRUE, Null),
     Fld("endDate", "str", FALSE, TRUE, Null) >>

TeamHistoryInput ==
  << Fld("teamIds", "str", TRUE, FALSE, Null),
     Fld("startSeason", "str", FALSE, TRUE, Null),
     Fld("endSeason", "str", FALSE, TRUE, Null),
     Fld("fields", "str", FALSE, TRUE, Null) >>

TeamStatsInput ==
  << Fld("season", "str", TRUE, FALSE, Null),
     Fld("group", "str", TRUE, FALSE, Null),
     Fld("stats", "str", TRUE, FALSE, Null),
     Fld("gameType", "str", FALSE, TRUE, Null),
     Fld("order", "str", FALSE, TRUE, Null),
     Fld("sortStat", "str", FALSE, TRUE, Null),
     Fld("fields", "str", FALSE, TRUE, Null),
     Fld("startDate", "str", FALSE, TRUE, Null),
     Fld("endDate", "str", FALSE, TRUE, Null) >>

TeamAffiliatesInput ==
  << Fld("teamIds", "str", TRUE, FALSE, Null),
     Fld("season", "str", FALSE, TRUE, Null),
     Fld("hydrate", "str", FALSE, TRUE, Null),
     Fld("fields", "str", FALSE, TRUE, Null) >>

TeamAlumniInput ==
  << Fld("teamId", "str", TRUE, FALSE, Null),
     Fld("season", "str", TRUE, FALSE, Null),
     Fld("group", "str", TRUE, FALSE, Null),
     Fld("hydrate", "str", FALSE, TRUE, Null),
     Fld("fields", "str", FALSE, TRUE, Null) >>

TeamCoachesInput ==
  << Fld("teamId", "str", TRUE, FALSE, Null),
     Fld("season", "str", FALSE, TRUE, Null),
     Fld("date", "str", FALSE, TRUE, Null),
     Fld("fields", "str", FALSE, TRUE, Null) >>

TeamPersonnelInput == TeamCoachesInput

TeamLeadersInput ==
  << Fld("teamId", "str", TRUE, FALSE, Null),
     Fld("leaderCategories", "str", TRUE, FALSE, Null),
     Fld("season", "str", TRUE, FALSE, Null),
     Fld("leaderGameTypes", "str", FALSE, TRUE, Null),
     Fld("hydrate", "str", FALSE, TRUE, Null),
     Fld("limit", "int", FALSE, TRUE, Null),
     Fld("fields", "str", FALSE, TRUE, Null) >>

TeamStatsByIdInput ==
  << Fld("teamId", "str", TRUE, FALSE, Null),
     Fld("season", "str", TRUE, FALSE, Null),
     Fld("group", "str", TRUE, FALSE, Null),
     Fld("stats", "str", FALSE, TRUE, Null),
     Fld("gameType", "str", FALSE, TRUE, Null),
     Fld("sportIds", "str", FALSE, TRUE, S(<<"1">>)),
     Fld("sitCodes", "str", FALSE, TRUE, Null),
     Fld("fields", "str", FALSE, TRUE, Null) >>

TeamUniformsInput ==
  << Fld("teamIds", "str", TRUE, FALSE, Null),
     Fld("season", "str", FALSE, TRUE, Null),
     Fld("fields", "str", FALSE, TRUE, Null) >>

TransactionsInput ==
  << Fld("teamId", "str", FALSE, TRUE, Null),
     Fld("playerId", "str", FALSE, TRUE, Null),
     Fld("date", "str", FALSE, TRUE, Null),
     Fld("startDate", "str", FALSE, TRUE, Null),
     Fld("endDate", "str", FALSE, TRUE, Null),
     Fld("fields", "str", FALSE, TRUE, Null) >>

---------------------------------------------------------------------------
(* Validation of a payload against a schema (pydantic, lax mode) *)

Ok(v) == [ok |-> TRUE, v |-> v]
Err == [ok |-> FALSE, v |-> Null]

BoolWords == {<<"true">>, <<"false">>, <<"1">>, <<"0">>}

\* The value a field of the given type takes from a non-null input.
Coerce(type, x) ==
  CASE type = "int" ->
         IF x.t = "int" THEN Ok(x)
         ELSE IF x.t = "bool" THEN Ok(I(x.n))
         ELSE IF AllDigits(x.s) THEN Ok(I(ParseInt(x.s)))
         ELSE Err
    [] type = "str" -> IF x.t = "str" THEN Ok(x) ELSE Err
    [] type = "bool" ->
         IF x.t = "bool" THEN Ok(x)
         ELSE IF x.t = "int" THEN (IF x.n \in {0, 1} THEN Ok(B(x.n = 1)) ELSE Err)
         ELSE IF x.s \in BoolWords THEN Ok(B(x.s \in {<<"true">>, <<"1">>}))
         ELSE Err

\* A validation that lets a missing or None required field through as None.
ValidateFieldLenient(f, raw) ==
  IF f.name \notin DOMAIN raw THEN Ok(f.default)
  ELSE IF raw[f.name].t = "null" THEN Ok(Null)
  ELSE Coerce(f.type, raw[f.name])

\* One field: a missing key takes the default unless the field is required;
\* None is accepted by an Optional field only; anything else is coerced.
ValidateField(f, raw) ==
  IF f.name \notin DOMAIN raw
    THEN (IF f.required THEN Err ELSE Ok(f.default))
  ELSE IF raw[f.name].t = "null"
    THEN (IF f.nullable THEN Ok(Null) ELSE Err)
  ELSE Coerce(f.type, raw[f.name])

FieldNames(schema) == {schema[i].name : i \in DOMAIN schema}

FieldOf(schema, name) == schema[CHOOSE i \in DOMAIN schema : schema[i].name = name]

\* BaseModel validation: the params object, or the names of the fields in error.
Validate(schema, raw) ==
  LET res == [n \in FieldNames(schema) |-> ValidateField(FieldOf(schema, n), raw)]
  IN  [ok |-> \A n \in FieldNames(schema) : res[n].ok,
       errors |-> {n \in FieldNames(schema) : ~res[n].ok},
       value |-> [n \in FieldNames(schema) |-> res[n].v]]

\* A dump that ignores exclude_none.
model_dump_keep_none(params, exclude_none, exclude) ==
  [k \in DOMAIN params \ exclude |-> params[k]]

\* BaseModel.model_dump(exclude_none=..., exclude=...)
model_dump(params, exclude_none, exclude) ==
  LET keep == {k \in DOMAIN params \ exclude :
                 ~exclude_none \/ params[k].t # "null"}
  IN  [k \in keep |-> params[k]]

---------------------------------------------------------------------------
(* Tool implementations: the request each handler hands to http_client.get *)

MLB_BASE == <<"https://statsapi.mlb.com/api/v1">>

HEADERS == {<<"Accept", "application/json">>, <<"Content-Type", "application/json">>}

\* http_client.get(url, params=..., headers=HEADERS); hasParams is FALSE when
\* the call passes no params argument.
Get(url, hasParams, query) ==
  [method |-> "GET", url |-> url, hasParams |-> hasParams, params |-> query,
   headers |-> HEADERS]

\* The handler with year sent under its own name.
mlb_get_all_teams_unrenamed(params) ==
  LET query_params == SetItem(SetItem(EmptyDict, "sportId", I(1)), "year", params.year)
  IN  Get(MLB_BASE \o <<"/", "teams">>, TRUE, query_params)

mlb_get_all_teams(params) ==
  LET query_params == SetItem(SetItem(EmptyDict, "sportId", I(1)), "season", params.year)
  IN  Get(MLB_BASE \o <<"/", "teams">>, TRUE, query_params)

mlb_get_team_roster(params) ==
  LET query_params == SetItem(EmptyDict, "season", params.year)
  IN  Get(MLB_BASE \o <<"/", "teams", "/">> \o Fmt(params.team_id) \o <<"/", "roster">>, TRUE, query_params)

\* The handler without the upper-casing of position.
mlb_get_player_stats_exact_case(params) ==
  LET stat_group == IF params.position.s = <<"P">> THEN <<"pitching">> ELSE <<"hitting">>
      query_params == SetItem(SetItem(SetItem(EmptyDict, "stats", S(<<"season">>)), "group", S(stat_group)), "season", params.year)
  IN  Get(MLB_BASE \o <<"/", "people", "/">> \o Fmt(params.player_id) \o <<"/", "stats">>, TRUE, query_params)

mlb_get_player_stats(params) ==
  LET stat_group == IF Upper(params.position.s) = <<"P">> THEN <<"pitching">> ELSE <<"hitting">>
      query_params == SetItem(SetItem(SetItem(EmptyDict, "stats", S(<<"season">>)), "group", S(stat_group)), "season", params.year)
  IN  Get(MLB_BASE \o <<"/", "people", "/">> \o Fmt(params.player_id) \o <<"/", "stats">>, TRUE, query_params)

mlb_get_schedule_by_date(params) ==
  LET query_params == SetItem(SetItem(EmptyDict, "sportId", I(1)), "date", params.date)
  IN  Get(MLB_BASE \o <<"/", "schedule">>, TRUE, query_params)

mlb_get_boxscore(params) ==
  Get(MLB_BASE \o <<"/", "game", "/">> \o Fmt(params.game_pk) \o <<"/", "boxscore">>, FALSE, EmptyDict)

mlb_get_standings(params) ==
  Get(MLB_BASE \o <<"/", "standings">>, TRUE, model_dump(params, FALSE, {}))

mlb_get_player_bio(params) ==
  Get(MLB_BASE \o <<"/", "people", "/">> \o Fmt(params.player_id), FALSE, EmptyDict)

mlb_get_team_schedule(params) ==
  LET query_params == SetItem(SetItem(SetItem(EmptyDict, "sportId", I(1)), "teamId", params.team_id), "season", params.season)
  IN  Get(MLB_BASE \o <<"/", "schedule">>, TRUE, query_params)

mlb_get_game_content(params) ==
  Get(MLB_BASE \o <<"/", "game", "/">> \o Fmt(params.game_pk) \o <<"/", "content">>, FALSE, EmptyDict)

mlb_get_league_leaders(params) ==
  LET query_params == SetItem(SetItem(SetItem(EmptyDict, "leaderCategories", params.category), "season", params.season), "sportId", I(1))
  IN  Get(MLB_BASE \o <<"/", "stats", "/", "leaders">>, TRUE, query_params)

mlb_get_awards(params) ==
  Get(MLB_BASE \o <<"/", "awards">>, TRUE, model_dump(params, FALSE, {}))

mlb_get_venues(params) ==
  Get(MLB_BASE \o <<"/", "venues">>, TRUE, model_dump(params, FALSE, {}))

mlb_get_attendance(params) ==
  LET query_params == SetItem(model_dump(params, TRUE, {}), "leagueListId", S(<<"mlb">>))
  IN  Get(MLB_BASE \o <<"/", "attendance">>, TRUE, query_params)

mlb_get_award_winners(params) ==
  LET query_params == SetItem(SetItem(EmptyDict, "season", params.season), "sportId", I(1))
  IN  Get(MLB_BASE \o <<"/", "awards", "/">> \o Fmt(params.award_id) \o <<"/", "recipients">>, TRUE, query_params)

mlb_get_divisions(params) ==
  LET query_params == SetItem(model_dump(params, TRUE, {}), "sportId", I(1))
  IN  Get(MLB_BASE \o <<"/", "divisions">>, TRUE, query_params)

mlb_get_draft(params) ==
  LET query_params == model_dump(params, TRUE, {"year"})
  IN  Get(MLB_BASE \o <<"/", "draft", "/">> \o Fmt(params.year), TRUE, query_params)

mlb_get_game_changes(params) ==
  LET query_params == model_dump(params, TRUE, {})
  IN  Get(MLB_BASE \o <<"/", "game", "/", "changes">>, TRUE, query_params)

mlb_get_game_context_metrics(params) ==
  LET query_params == model_dump(params, TRUE, {"gamePk"})
  IN  Get(MLB_BASE \o <<"/", "game", "/">> \o Fmt(params.gamePk) \o <<"/", "contextMetrics">>, TRUE, query_params)

mlb_get_game_linescore(params) ==
  LET query_params == model_dump(params, TRUE, {"gamePk"})
  IN  Get(MLB_BASE \o <<"/", "game", "/">> \o Fmt(params.gamePk) \o <<"/", "linescore">>, TRUE, query_params)

mlb_get_game_uniforms(params) ==
  LET query_params == model_dump(params, TRUE, {})
  IN  Get(MLB_BASE \o <<"/", "uniforms", "/", "game">>, TRUE, query_params)

mlb_get_game_pace(params) ==
  LET query_params == SetItem(model_dump(params, TRUE, {}), "sportId", I(1))
  IN  Get(MLB_BASE \o <<"/", "gamePace">>, TRUE, query_params)

mlb_get_highlow_players(params) ==
  LET query_params == SetItem(model_dump(params, TRUE, {}), "sportIds", I(1))
  IN  Get(MLB_BASE \o <<"/", "highLow", "/", "player">>, TRUE, query_params)

mlb_get_highlow_teams(params) ==
  LET query_params == SetItem(model_dump(params, TRUE, {}), "sportIds", I(1))
  IN  Get(MLB_BASE \o <<"/", "highLow", "/", "team">>, TRUE, query_params)

mlb_get_all_star_ballot(params) ==
  LET query_params == SetItem(EmptyDict, "season", params.season)
  IN  Get(MLB_BASE \o <<"/", "league", "/">> \o Fmt(params.leagueId) \o <<"/", "allStarBallot">>, TRUE, query_params)

mlb_get_all_star_write_ins(params) ==
  LET query_params == SetItem(EmptyDict, "season", params.season)
  IN  Get(MLB_BASE \o <<"/", "league", "/">> \o Fmt(params.leagueId) \o <<"/", "allStarWriteIns">>, TRUE, query_params)

mlb_get_all_star_final_vote(params) ==
  LET query_params == SetItem(EmptyDict, "season", params.season)
  IN  Get(MLB_BASE \o <<"/", "league", "/">> \o Fmt(params.leagueId) \o <<"/", "allStarFinalVote">>, TRUE, query_params)

mlb_get_people_free_agents(params) ==
  LET query_params == model_dump(params, TRUE, {})
  IN  Get(MLB_BASE \o <<"/", "people", "/", "freeAgents">>, TRUE, query_params)

mlb_get_jobs_umpires(params) ==
  Get(MLB_BASE \o <<"/", "jobs", "/", "umpires">>, TRUE, model_dump(params, TRUE, {}))

mlb_get_jobs_datacasters(params) ==
  Get(MLB_BASE \o <<"/", "jobs", "/", "datacasters">>, TRUE, model_dump(params, TRUE, {}))

mlb_get_jobs_official_scorers(params) ==
  Get(MLB_BASE \o <<"/", "jobs", "/", "officialScorers">>, TRUE, model_dump(params, TRUE, {}))

mlb_get_schedule_tied_games(params) ==
  Get(MLB_BASE \o <<"/", "schedule", "/", "games", "/", "tied">>, TRUE, model_dump(params, TRUE, {}))

mlb_get_schedule_postseason(params) ==
  Get(MLB_BASE \o <<"/", "schedule", "/", "postseason">>, TRUE, model_dump(params, TRUE, {}))

mlb_get_schedule_postseason_series(params) ==
  Get(MLB_BASE \o <<"/", "schedule", "/", "postseason", "/", "series">>, TRUE, model_dump(params, TRUE, {}))

\* The handler without exclude={'all'}.
mlb_get_seasons_all_kept(params) ==
  LET base_path == IF Truthy(params.all) THEN <<"/", "seasons", "/", "all">> ELSE <<"/", "seasons">>
      query_params == model_dump(params, TRUE, {})
  IN  Get(MLB_BASE \o base_path, TRUE, query_params)

mlb_get_seasons(params) ==
  LET base_path == IF Truthy(params.all) THEN <<"/", "seasons", "/", "all">> ELSE <<"/", "seasons">>
      query_params == model_dump(params, TRUE, {"all"})
  IN  Get(MLB_BASE \o base_path, TRUE, query_params)

mlb_get_season_by_id(params) ==
  LET query_params == SetItem(EmptyDict, "sportId", I(1))
  IN  Get(MLB_BASE \o <<"/", "seasons", "/">> \o Fmt(params.seasonId), TRUE, query_params)

mlb_get_stats(params) ==
  Get(MLB_BASE \o <<"/", "stats">>, TRUE, model_dump(params, TRUE, {}))

mlb_get_team_history(params) ==
  Get(MLB_BASE \o <<"/", "teams", "/", "history">>, TRUE, model_dump(params, TRUE, {}))

mlb_get_team_stats(params) ==
  LET query_params == SetItem(model_dump(params, TRUE, {}), "sportIds", I(1))
  IN  Get(MLB_BASE \o <<"/", "teams", "/", "stats">>, TRUE, query_params)

mlb_get_team_affiliates(params) ==
  LET query_params == SetItem(model_dump(params, TRUE, {}), "sportId", I(1))
  IN  Get(MLB_BASE \o <<"/", "teams", "/", "affiliates">>, TRUE, query_params)

mlb_get_team_alumni(params) ==
  LET query_params == model_dump(params, TRUE, {"teamId"})
  IN  Get(MLB_BASE \o <<"/", "teams", "/">> \o Fmt(params.teamId) \o <<"/", "alumni">>, TRUE, query_params)

mlb_get_team_coaches(params) ==
  LET query_params == model_dump(params, TRUE, {"teamId"})
  IN  Get(MLB_BASE \o <<"/", "teams", "/">> \o Fmt(params.teamId) \o <<"/", "coaches">>, TRUE, query_params)

mlb_get_team_personnel(params) ==
  LET query_params == model_dump(params, TRUE, {"teamId"})
  IN  Get(MLB_BASE \o <<"/", "teams", "/">> \o Fmt(params.teamId) \o <<"/", "personnel">>, TRUE, query_params)

mlb_get_team_leaders(params) ==
  LET query_params == model_dump(params, TRUE, {"teamId"})
  IN  Get(MLB_BASE \o <<"/", "teams", "/">> \o Fmt(params.teamId) \o <<"/", "leaders">>, TRUE, query_params)

\* The static sportIds as a default only: the caller's value is kept.
mlb_get_team_stats_by_id_caller_wins(params) ==
  LET dumped == model_dump(params, TRUE, {"teamId"})
      query_params == IF "sportIds" \in DOMAIN dumped THEN dumped
                      ELSE SetItem(dumped, "sportIds", I(1))
  IN  Get(MLB_BASE \o <<"/", "teams", "/">> \o Fmt(params.teamId) \o <<"/", "stats">>, TRUE, query_params)

mlb_get_team_stats_by_id(params) ==
  LET query_params == SetItem(model_dump(params, TRUE, {"teamId"}), "sportIds", I(1))
  IN  Get(MLB_BASE \o <<"/", "teams", "/">> \o Fmt(params.teamId) \o <<"/", "stats">>, TRUE, query_params)

mlb_get_team_uniforms(params) ==
  Get(MLB_BASE \o <<"/", "uniforms", "/", "team">>, TRUE, model_dump(params, TRUE, {}))

mlb_get_transactions(params) ==
  LET query_params == SetItem(model_dump(params, TRUE, {}), "sportId", I(1))
  IN  Get(MLB_BASE \o <<"/", "transactions">>, TRUE, query_params)

---------------------------------------------------------------------------
(* The tool registry *)

Tool(name, schema) == [name |-> name, schema |-> schema]

\* The decorated functions in source order: the name each is registered under
\* (the function's name) and the schema of its params argument.
Registrations ==
  << Tool("mlb_get_all_teams", TeamsForYearInput),
     Tool("mlb_get_team_roster", TeamRosterInput),
     Tool("mlb_get_player_stats", PlayerStatsInput),
     Tool("mlb_get_schedule_by_date", ScheduleByDateInput),
     Tool("mlb_get_boxscore", BoxscoreInput),
     Tool("mlb_get_standings", StandingsInput),
     Tool("mlb_get_player_bio", PlayerBioInput),
     Tool("mlb_get_team_schedule", TeamScheduleInput),
     Tool("mlb_get_game_content", GameContentInput),
     Tool("mlb_get_league_leaders", LeagueLeadersInput),
     Tool("mlb_get_awards", AwardsInput),
     Tool("mlb_get_venues", VenuesInput),
     Tool("mlb_get_attendance", AttendanceInput),
     Tool("mlb_get_award_winners", AwardWinnersInput),
     Tool("mlb_get_divisions", DivisionsInput),
     Tool("mlb_get_draft", DraftInput),
     Tool("mlb_get_game_changes", GameChangesInput),
     Tool("mlb_get_game_context_metrics", GameContextMetricsInput),
     Tool("mlb_get_game_linescore", GameLinescoreInput),
     Tool("mlb_get_game_uniforms", GameUniformsInput),
     Tool("mlb_get_game_pace", GamePaceInput),
     Tool("mlb_get_highlow_players", HighLowPlayerInput),
     Tool("mlb_get_highlow_teams", HighLowTeamInput),
     Tool("mlb_get_all_star_ballot", AllStarBallotInput),
     Tool("mlb_get_all_star_write_ins", AllStarWriteInsInput),
     Tool("mlb_get_all_star_final_vote", AllStarFinalVoteInput),
     Tool("mlb_get_people_free_agents", PeopleFreeAgentsInput),
     Tool("mlb_get_jobs_umpires", JobsUmpiresInput),
     Tool("mlb_get_jobs_datacasters", JobsDatacastersInput),
     Tool("mlb_get_jobs_official_scorers", JobsOfficialScorersInput),
     Tool("mlb_get_schedule_tied_games", ScheduleTiedGamesInput),
     Tool("mlb_get_schedule_postseason", SchedulePostseasonInput),
     Tool("mlb_get_schedule_postseason_series", SchedulePostseasonInput),
     Tool("mlb_get_seasons", SeasonsInput),
     Tool("mlb_get_season_by_id", SeasonByIdInput),
     Tool("mlb_get_stats", MLBStatsInput),
     Tool("mlb_get_team_history", TeamHistoryInput),
     Tool("mlb_get_team_stats", TeamStatsInput),
     Tool("mlb_get_team_affiliates", TeamAffiliatesInput),
     Tool("mlb_get_team_alumni", TeamAlumniInput),
     Tool("mlb_get_team_coaches", TeamCoachesInput),
     Tool("mlb_get_team_personnel", TeamCoachesInput),
     Tool("mlb_get_team_leaders", TeamLeadersInput),
     Tool("mlb_get_team_stats_by_id", TeamStatsByIdInput),
     Tool("mlb_get_team_uniforms", TeamUniformsInput),
     Tool("mlb_get_transactions", TransactionsInput) >>

\* The handler FastMCP calls for a registered name.
Handler(name, params) ==
  CASE name = "mlb_get_all_teams" -> mlb_get_all_teams(params)
    [] name = "mlb_get_team_roster" -> mlb_get_team_roster(params)
    [] name = "mlb_get_player_stats" -> mlb_get_player_stats(params)
    [] name = "mlb_get_schedule_by_date" -> mlb_get_schedule_by_date(params)
    [] name = "mlb_get_boxscore" -> mlb_get_boxscore(params)
    [] name = "mlb_get_standings" -> mlb_get_standings(params)
    [] name = "mlb_get_player_bio" -> mlb_get_player_bio(params)
    [] name = "mlb_get_team_schedule" -> mlb_get_team_schedule(params)
    [] name = "mlb_get_game_content" -> mlb_get_game_content(params)
    [] name = "mlb_get_league_leaders" -> mlb_get_league_leaders(params)
    [] name = "mlb_get_awards" -> mlb_get_awards(params)
    [] name = "mlb_get_venues" -> mlb_get_venues(params)
    [] name = "mlb_get_attendance" -> mlb_get_attendance(params)
    [] name = "mlb_get_award_winners" -> mlb_get_award_winners(params)
    [] name = "mlb_get_divisions" -> mlb_get_divisions(params)
    [] name = "mlb_get_draft" -> mlb_get_draft(params)
    [] name = "mlb_get_game_changes" -> mlb_get_game_changes(params)
    [] name = "mlb_get_game_context_metrics" -> mlb_get_game_context_metrics(params)
    [] name = "mlb_get_game_linescore" -> mlb_get_game_linescore(params)
    [] name = "mlb_get_game_uniforms" -> mlb_get_game_uniforms(params)
    [] name = "mlb_get_game_pace" -> mlb_get_game_pace(params)
    [] name = "mlb_get_highlow_players" -> mlb_get_highlow_players(params)
    [] name = "mlb_get_highlow_teams" -> mlb_get_highlow_teams(params)
    [] name = "mlb_get_all_star_ballot" -> mlb_get_all_star_ballot(params)
    [] name = "mlb_get_all_star_write_ins" -> mlb_get_all_star_write_ins(params)
    [] name = "mlb_get_all_star_final_vote" -> mlb_get_all_star_final_vote(params)
    [] name = "mlb_get_people_free_agents" -> mlb_get_people_free_agents(params)
    [] name = "mlb_get_jobs_umpires" -> mlb_get_jobs_umpires(params)
    [] name = "mlb_get_jobs_datacasters" -> mlb_get_jobs_datacasters(params)
    [] name = "mlb_get_jobs_official_scorers" -> mlb_get_jobs_official_scorers(params)
    [] name = "mlb_get_schedule_tied_games" -> mlb_get_schedule_tied_games(params)
    [] name = "mlb_get_schedule_postseason" -> mlb_get_schedule_postseason(params)
    [] name = "mlb_get_schedule_postseason_series" -> mlb_get_schedule_postseason_series(params)
    [] name = "mlb_get_seasons" -> mlb_get_seasons(params)
    [] name = "mlb_get_season_by_id" -> mlb_get_season_by_id(params)
    [] name = "mlb_get_stats" -> mlb_get_stats(params)
    [] name = "mlb_get_team_history" -> mlb_get_team_history(params)
    [] name = "mlb_get_team_stats" -> mlb_get_team_stats(params)
    [] name = "mlb_get_team_affiliates" -> mlb_get_team_affiliates(params)
    [] name = "mlb_get_team_alumni" -> mlb_get_team_alumni(params)
    [] name = "mlb_get_team_coaches" -> mlb_get_team_coaches(params)
    [] name = "mlb_get_team_personnel" -> mlb_get_team_personnel(params)
    [] name = "mlb_get_team_leaders" -> mlb_get_team_leaders(params)
    [] name = "mlb_get_team_stats_by_id" -> mlb_get_team_stats_by_id(params)
    [] name = "mlb_get_team_uniforms" -> mlb_get_team_uniforms(params)
    [] name = "mlb_get_transactions" -> mlb_get_transactions(params)

\* The registry the decorators leave behind when the module has been imported.
ToolNames == {Registrations[i].name : i \in DOMAIN Registrations}

\* The schema of the first function registered under a name (a later
\* registration of a name already present is ignored by FastMCP).
SchemaOf(name) ==
  LET first == CHOOSE i \in DOMAIN Registrations :
                 /\ Registrations[i].name = name
                 /\ \A j \in 1..(i - 1) : Registrations[j].name # name
  IN  Registrations[first].schema

\* A lookup that ignores the case of the name.
ResolveAnyCase(reg, name) ==
  LET lower == IF name = "MLB_GET_ALL_TEAMS" THEN "mlb_get_all_teams" ELSE name
  IN  [found |-> lower \in reg, name |-> lower]

\* ToolManager.get_tool: the registered tool of exactly that name, if any.
Resolve(reg, name) == [found |-> name \in reg, name |-> name]

---------------------------------------------------------------------------
(* Upstream responses *)

\* Response.is_success
IsSuccess(status) == 200 <= status /\ status <= 299

NoValue == [valid |-> FALSE, type |-> "", keys |-> {}]

\* Response.json(): the document a body text parses to, NoValue when the text
\* is not JSON.
JsonLoads(body) ==
  CASE body = "{\"teams\":[],\"copyright\":\"c\"}" ->
         [valid |-> TRUE, type |-> "object", keys |-> {"teams", "copyright"}]
    [] body = "{\"message\":\"Not Found\"}" ->
         [valid |-> TRUE, type |-> "object", keys |-> {"message"}]
    [] body = "[]" -> [valid |-> TRUE, type |-> "array", keys |-> {}]
    [] OTHER -> NoValue

NoResponse == [status |-> 0, body |-> "", setCookie |-> ""]

NoOutcome == [kind |-> "none", fields |-> {}, status |-> 0, body |-> "", value |-> NoValue]

UnknownTool == [NoOutcome EXCEPT !.kind = "UnknownTool"]

ValidationError(fields) == [NoOutcome EXCEPT !.kind = "ValidationError", !.fields = fields]

\* httpx.HTTPStatusError: it carries the response, so its status and body.
UpstreamError(res) ==
  [NoOutcome EXCEPT !.kind = "UpstreamError", !.status = res.status, !.body = res.body]

\* The JSONDecodeError of Response.json().
ParseError == [NoOutcome EXCEPT !.kind = "ParseError"]

\* httpx.TransportError (connect, read, timeout): no response arrived.
\* A transport failure that is caught and dropped: the dispatch ends with no
\* outcome for its caller.
TransportFailureSwallowed == NoOutcome

TransportFailure == [NoOutcome EXCEPT !.kind = "TransportError"]

Result(value) == [NoOutcome EXCEPT !.kind = "result", !.value = value]

\* A handler without raise_for_status().
HandleResponseNoRaise(res) ==
  IF ~JsonLoads(res.body).valid THEN ParseError ELSE Result(JsonLoads(res.body))

\* A handler that returns one member of the document in place of the document.
HandleResponseReshaped(res) ==
  IF ~IsSuccess(res.status) THEN UpstreamError(res)
  ELSE IF ~JsonLoads(res.body).valid THEN ParseError
  ELSE Result([JsonLoads(res.body) EXCEPT !.keys = @ \ {"copyright"}])

\* A handler that returns an empty document when the body does not parse.
HandleResponseEmptyOnBadJson(res) ==
  IF ~IsSuccess(res.status) THEN UpstreamError(res)
  ELSE IF ~JsonLoads(res.body).valid
    THEN Result([valid |-> TRUE, type |-> "object", keys |-> {}])
  ELSE Result(JsonLoads(res.body))

\* What a handler does with the response of its GET: raise_for_status(), then
\* return res.json().
HandleResponse(res) ==
  IF ~IsSuccess(res.status) THEN UpstreamError(res)
  ELSE IF ~JsonLoads(res.body).valid THEN ParseError
  ELSE Result(JsonLoads(res.body))

---------------------------------------------------------------------------
(* Dispatch *)

NumCalls == 2

Calls == 1..NumCalls

IdleCall ==
  [pc |-> "idle", tool |-> "", payload |-> EmptyDict, res |-> NoResponse,
   out |-> NoOutcome]

\* The requests a call has handed to the transport.
RequestsOf(c) == {i \in DOMAIN requests : requests[i].call = c}

\* A get that is answered from the log when an equal request was issued before.
SendCached(log, c, req) ==
  IF \E i \in DOMAIN log : log[i].url = req.url /\ log[i].params = req.params
    THEN log
    ELSE Append(log, [call |-> c, method |-> req.method, url |-> req.url,
                      hasParams |-> req.hasParams, params |-> req.params,
                      headers |-> req.headers, cookies |-> cookies])

\* A get that is issued a second time.
SendTwice(log, c, req) ==
  LET r == [call |-> c, method |-> req.method, url |-> req.url,
            hasParams |-> req.hasParams, params |-> req.params,
            headers |-> req.headers, cookies |-> cookies]
  IN  Append(Append(log, r), r)

\* await http_client.get(...): one request is handed to the transport; the
\* client adds the cookies it holds to the request.
Send(log, c, req) ==
  Append(log, [call |-> c, method |-> req.method, url |-> req.url,
               hasParams |-> req.hasParams, params |-> req.params,
               headers |-> req.headers, cookies |-> cookies])

\* A dispatcher that registers the name it is asked for.
DispatchRegistering(c, name, raw) ==
  /\ calls[c].pc = "idle"
  /\ LET tool == Resolve(registry, name)
         v == Validate(SchemaOf(tool.name), raw)
         started == [IdleCall EXCEPT !.tool = name, !.payload = raw]
     IN  IF ~tool.found
           THEN /\ calls' = [calls EXCEPT ![c] =
                               [started EXCEPT !.pc = "done", !.out = UnknownTool]]
                /\ UNCHANGED requests
         ELSE IF ~v.ok
           THEN /\ calls' = [calls EXCEPT ![c] =
                               [started EXCEPT !.pc = "done",
                                               !.out = ValidationError(v.errors)]]
                /\ UNCHANGED requests
         ELSE /\ calls' = [calls EXCEPT ![c] = [started EXCEPT !.pc = "awaiting"]]
              /\ requests' = Send(requests, c, Handler(tool.name, v.value))
  /\ registry' = registry \cup {name}
  /\ UNCHANGED cookies

\* FastMCP's call_tool up to the handler's await: look the name up, validate
\* the payload against the schema of params, run the handler to its GET.
Dispatch(c, name, raw) ==
  /\ calls[c].pc = "idle"
  /\ LET tool == Resolve(registry, name)
         v == Validate(SchemaOf(tool.name), raw)
         started == [IdleCall EXCEPT !.tool = name, !.payload = raw]
     IN  IF ~tool.found
           THEN /\ calls' = [calls EXCEPT ![c] =
                               [started EXCEPT !.pc = "done", !.out = UnknownTool]]
                /\ UNCHANGED requests
         ELSE IF ~v.ok
           THEN /\ calls' = [calls EXCEPT ![c] =
                               [started EXCEPT !.pc = "done",
                                               !.out = ValidationError(v.errors)]]
                /\ UNCHANGED requests
         ELSE /\ calls' = [calls EXCEPT ![c] = [started EXCEPT !.pc = "awaiting"]]
              /\ requests' = Send(requests, c, Handler(tool.name, v.value))
  /\ UNCHANGED <<registry, cookies>>

\* The cookies of the client after a response: the client stores what the
\* response sets, whatever the response's status.
extract_cookies(jar, res) ==
  IF res.setCookie = "" THEN jar ELSE jar \cup {res.setCookie}

\* The upstream answers: the client takes the response's cookies, the handler
\* resumes after its await.
Receive(c, status, body, setCookie) ==
  /\ calls[c].pc = "awaiting"
  /\ LET res == [status |-> status, body |-> body, setCookie |-> setCookie]
     IN  /\ calls' = [calls EXCEPT ![c].pc = "done", ![c].res = res,
                                   ![c].out = HandleResponse(res)]
         /\ cookies' = extract_cookies(cookies, res)
  /\ UNCHANGED <<registry, requests>>

\* The transport fails: the await raises, no response arrives.
TransportError(c) ==
  /\ calls[c].pc = "awaiting"
  /\ calls' = [calls EXCEPT ![c].pc = "done", ![c].out = TransportFailure]
  /\ UNCHANGED <<registry, requests, cookies>>

Init ==
  /\ registry = ToolNames
  /\ calls = [c \in Calls |-> IdleCall]
  /\ requests = <<>>
  /\ cookies = {}

---------------------------------------------------------------------------
(* The inputs the model dispatches *)

MaxDeviations == 1

TypicalValue(type) ==
  CASE type = "int" -> I(2023)
    [] type = "str" -> S(<<"147">>)
    [] type = "bool" -> B(TRUE)

\* The fields a handler formats into the path of its URL.
PathFields == {"team_id", "player_id", "award_id", "leagueId", "seasonId",
               "teamId", "gamePk", "game_pk", "year"}

\* Valid, coercible and ill-typed values of a field, and None: a str field
\* that goes into a path also takes texts with "/", "?" and "#", a position
\* also takes "P" and "p".
InputValues(f) ==
  CASE f.type = "int" ->
         {I(2023), I(7), S(<<"2", "0", "2", "4">>), S(<<"abc">>), Null}
    [] f.type = "str" ->
         {S(<<"147">>), S(<<>>), I(5), Null}
         \cup (IF f.name \in PathFields
                 THEN {S(<<"a", "/", "b">>), S(<<"a", "?", "k", "=", "v">>),
                       S(<<"a", "#", "b">>)}
                 ELSE {})
         \cup (IF f.name = "position" THEN {S(<<"P">>), S(<<"p">>)} ELSE {})
    [] f.type = "bool" ->
         {B(TRUE), B(FALSE), S(<<"true">>), S(<<"abc">>), Null}

FullPayload(schema) ==
  [n \in FieldNames(schema) |-> TypicalValue(FieldOf(schema, n).type)]

MinimalPayload(schema) ==
  [n \in {m \in FieldNames(schema) : FieldOf(schema, m).required} |->
     TypicalValue(FieldOf(schema, n).type)]

\* A payload with one field given another value, or left out.
Deviations(p, schema) ==
  UNION {{SetItem(p, n, v) : v \in InputValues(FieldOf(schema, n))}
           \cup {DelItem(p, n)} : n \in FieldNames(schema)}

RECURSIVE Deviate(_, _, _)
Deviate(P, schema, k) ==
  IF k = 0 THEN P
  ELSE Deviate(P \cup UNION {Deviations(p, schema) : p \in P}, schema, k - 1)

UnregisteredNames == {"mlb_get_nothing", "MLB_GET_ALL_TEAMS", "get_all_teams"}

Payloads(name) ==
  IF name \in ToolNames
    THEN Deviate({FullPayload(SchemaOf(name)), MinimalPayload(SchemaOf(name))},
                 SchemaOf(name), MaxDeviations)
    ELSE Deviate({FullPayload(TeamsForYearInput)}, TeamsForYearInput, MaxDeviations)

---------------------------------------------------------------------------
(* One dispatch at a time, over every tool and payload *)

\* The answers of the upstream to a dispatch: a JSON document, an error
\* status with a JSON error body, a success status with a body that is no JSON.
Responses ==
  {[status |-> 200, body |-> "{\"teams\":[],\"copyright\":\"c\"}"],
   [status |-> 404, body |-> "{\"message\":\"Not Found\"}"],
   [status |-> 200, body |-> "<html>Service Unavailable</html>"]}

Next ==
  \/ \E name \in ToolNames \cup UnregisteredNames :
       \E raw \in Payloads(name) : Dispatch(1, name, raw)
  \/ \E r \in Responses : Receive(1, r.status, r.body, "")
  \/ TransportError(1)

Spec == Init /\ [][Next]_vars

---------------------------------------------------------------------------
(* One dispatch at a time, over every status and body of the response *)

RespNames == {"mlb_get_all_teams", "mlb_get_boxscore", "mlb_get_player_bio",
              "mlb_get_stats", "mlb_get_nothing"}

RespPayloads(name) ==
  IF name \in ToolNames
    THEN {FullPayload(SchemaOf(name)), MinimalPayload(SchemaOf(name))}
    ELSE {EmptyDict}

Statuses == {200, 204, 299, 300, 301, 404, 503}

Bodies == {"{\"teams\":[],\"copyright\":\"c\"}", "{\"message\":\"Not Found\"}", "[]",
           "<html>Service Unavailable</html>", ""}

NextResp ==
  \/ \E name \in RespNames :
       \E raw \in RespPayloads(name) : Dispatch(1, name, raw)
  \/ \E status \in Statuses, body \in Bodies : Receive(1, status, body, "")
  \/ TransportError(1)

SpecResp == Init /\ [][NextResp]_vars

---------------------------------------------------------------------------
(* Several dispatches in flight at once, over a few tools and payloads *)

ConcNames == {"mlb_get_team_roster", "mlb_get_all_teams", "mlb_get_nothing"}

ConcPayloads(name) ==
  IF name \in ToolNames
    THEN {FullPayload(SchemaOf(name)),
          DelItem(FullPayload(SchemaOf(name)), "year"),
          SetItem(FullPayload(SchemaOf(name)), "year", I(7))}
    ELSE {EmptyDict}

ConcStatuses == {200, 404}

ConcBodies == {"{\"teams\":[],\"copyright\":\"c\"}", "<html>Service Unavailable</html>"}

\* What the response's Set-Cookie header holds: nothing, or one cookie for
\* every path of the host.
ConcCookies == {"", "sid=1; Path=/"}

\* The answers of the upstream: every status and body without a cookie, and
\* an error page that sets one.
ConcResponses ==
  {r \in [status : ConcStatuses, body : ConcBodies, setCookie : ConcCookies] :
     r.setCookie = "" \/ (r.status = 404 /\ ~JsonLoads(r.body).valid)}

NextConc ==
  \/ \E c \in Calls, name \in ConcNames :
       \E raw \in ConcPayloads(name) : Dispatch(c, name, raw)
  \/ \E c \in Calls, r \in ConcResponses :
       Receive(c, r.status, r.body, r.setCookie)
  \/ \E c \in Calls : TransportError(c)

SpecConc == Init /\ [][NextConc]_vars

\* The await of a handler ends: a response arrives or the transport raises.
Await(c) ==
  \/ \E r \in ConcResponses : Receive(c, r.status, r.body, r.setCookie)
  \/ TransportError(c)

\* The dispatches in flight, with a transport that ends every request it was
\* handed: the client is built with the library's default timeouts, so an
\* await on http_client.get either gets its response or raises.
SpecLive == Init /\ [][NextConc]_vars /\ \A c \in Calls : WF_vars(Await(c))

---------------------------------------------------------------------------
(* Properties *)

Started(c) == calls[c].pc # "idle"

Registered(c) == calls[c].tool \in ToolNames

Validated(c) == Validate(SchemaOf(calls[c].tool), calls[c].payload)

\* A response has arrived for the call's request.
Answered(c) == calls[c].pc = "done" /\ calls[c].res # NoResponse

RequestParts(r) ==
  [method |-> r.method, url |-> r.url, hasParams |-> r.hasParams,
   params |-> r.params, headers |-> r.headers]

C2_MissingRequiredFieldRejected ==
  \A c \in Calls :
    (Started(c) /\ Registered(c)) =>
      LET schema == SchemaOf(calls[c].tool)
      IN  \A k \in DOMAIN schema :
            ( /\ schema[k].required
              /\ \/ schema[k].name \notin DOMAIN calls[c].payload
                 \/ calls[c].payload[schema[k].name] = Null ) =>
              /\ calls[c].pc = "done"
              /\ calls[c].out.kind = "ValidationError"
              /\ schema[k].name \in calls[c].out.fields
              /\ RequestsOf(c) = {}

C2_Witness ==
  \E c \in Calls :
    /\ calls[c].tool = "mlb_get_boxscore"
    /\ "team_id" \notin DOMAIN calls[c].payload
    /\ calls[c].out.kind = "ValidationError"
    /\ "team_id" \in calls[c].out.fields
    /\ requests = <<>>

\* C3 as stated: whenever a payload leaves out an optional field, the query
\* parameters of the request carry no entry under that field's name.
C3_OmittedOptionalKeyAbsent ==
  \A c \in Calls :
    (Started(c) /\ Registered(c)) =>
      LET schema == SchemaOf(calls[c].tool)
      IN  \A i \in RequestsOf(c), k \in DOMAIN schema :
            ( /\ ~schema[k].required
              /\ schema[k].name \notin DOMAIN calls[c].payload ) =>
              schema[k].name \notin DOMAIN requests[i].params

\* C3 as amended: whenever a payload leaves out an optional field whose
\* declared default is None, the query parameters the handler passes with the
\* request carry no entry under that field's name.
C3_OmittedNoneDefaultKeyAbsent ==
  \A c \in Calls :
    (Started(c) /\ Registered(c)) =>
      LET schema == SchemaOf(calls[c].tool)
      IN  \A i \in RequestsOf(c), k \in DOMAIN schema :
            ( /\ ~schema[k].required
              /\ schema[k].default = Null
              /\ schema[k].name \notin DOMAIN calls[c].payload ) =>
              schema[k].name \notin DOMAIN requests[i].params

C3_Witness ==
  \E c \in Calls :
    /\ calls[c].tool = "mlb_get_draft"
    /\ "round" \notin DOMAIN calls[c].payload
    /\ "teamId" \in DOMAIN calls[c].payload
    /\ \E i \in RequestsOf(c) :
         /\ "round" \notin DOMAIN requests[i].params
         /\ "teamId" \in DOMAIN requests[i].params

\* C4: a response whose status is outside 200..299 ends the dispatch in an
\* upstream error that carries the response's status and body, never in a
\* result.
C4_NonSuccessIsUpstreamError ==
  \A c \in Calls :
    (Answered(c) /\ ~(200 <= calls[c].res.status /\ calls[c].res.status <= 299)) =>
      /\ calls[c].out.kind = "UpstreamError"
      /\ calls[c].out.status = calls[c].res.status
      /\ calls[c].out.body = calls[c].res.body

C4_Witness ==
  \E c \in Calls :
    /\ Answered(c)
    /\ calls[c].res.status = 404
    /\ calls[c].res.body = "{\"message\":\"Not Found\"}"
    /\ calls[c].out.kind = "UpstreamError"
    /\ calls[c].out.status = 404
    /\ calls[c].out.body = "{\"message\":\"Not Found\"}"

\* C5: a dispatch of a name that no decorator registered ends in UnknownTool
\* and has issued no outbound request.
C5_UnknownToolRejected ==
  \A c \in Calls :
    (Started(c) /\ ~Registered(c)) =>
      /\ calls[c].pc = "done"
      /\ calls[c].out.kind = "UnknownTool"
      /\ RequestsOf(c) = {}

C5_Witness ==
  \E c \in Calls :
    /\ calls[c].tool = "MLB_GET_ALL_TEAMS"
    /\ calls[c].payload = FullPayload(TeamsForYearInput)
    /\ calls[c].out.kind = "UnknownTool"
    /\ requests = <<>>

\* C6: when the upstream answers with a status in 200..299 and a body that is
\* JSON, the dispatch returns the document the body parses to, with the same
\* type and the same keys.
C6_SuccessReturnsParsedBody ==
  \A c \in Calls :
    ( /\ Answered(c)
      /\ 200 <= calls[c].res.status /\ calls[c].res.status <= 299
      /\ JsonLoads(calls[c].res.body).valid ) =>
      /\ calls[c].out.kind = "result"
      /\ calls[c].out.value = JsonLoads(calls[c].res.body)

C6_Witness ==
  \E c \in Calls :
    /\ Answered(c)
    /\ calls[c].tool = "mlb_get_stats"
    /\ calls[c].res.status = 200
    /\ calls[c].out.kind = "result"
    /\ calls[c].out.value = [valid |-> TRUE, type |-> "object",
                             keys |-> {"teams", "copyright"}]

\* The int a valid payload value of an int field stands for.
AsInt(v) == IF v.t = "int" THEN v.n ELSE ParseInt(v.s)

\* The request of mlb_get_player_stats goes to /people/<player_id>/stats with
\* the query {stats: "season", group: <group>, season: <year>} and no other key.
PlayerStatsRequestIs(c, i, group) ==
  /\ requests[i].method = "GET"
  /\ requests[i].url = MLB_BASE \o <<"/", "people", "/">>
                         \o calls[c].payload.player_id.s \o <<"/", "stats">>
  /\ requests[i].params = [stats |-> S(<<"season">>), group |-> S(<<group>>),
                           season |-> I(AsInt(calls[c].payload.year))]

\* C7 as stated: the group is "pitching" when position is "P" and "hitting"
\* for every other position.
C7_PitchingOnlyForUpperP ==
  \A c \in Calls :
    calls[c].tool = "mlb_get_player_stats" =>
      \A i \in RequestsOf(c) :
        PlayerStatsRequestIs(c, i, IF calls[c].payload.position.s = <<"P">>
                                     THEN "pitching" ELSE "hitting")

\* C7 as amended: the group is "pitching" when position is "P" or "p" (the
\* position is upper-cased before the comparison) and "hitting" for every
\* other position.
C7_PitchingForEitherCaseP ==
  \A c \in Calls :
    calls[c].tool = "mlb_get_player_stats" =>
      \A i \in RequestsOf(c) :
        PlayerStatsRequestIs(c, i, IF calls[c].payload.position.s \in {<<"P">>, <<"p">>}
                                     THEN "pitching" ELSE "hitting")

C7_Witness ==
  \E c \in Calls :
    /\ calls[c].tool = "mlb_get_player_stats"
    /\ "position" \in DOMAIN calls[c].payload
    /\ calls[c].payload.position = S(<<"p">>)
    /\ \E i \in RequestsOf(c) : requests[i].params.group = S(<<"pitching">>)

\* C8: the request of mlb_get_seasons goes to /seasons/all when the payload's
\* all is true and to /seasons otherwise (all false, None or left out), and
\* its query parameters never have the key all.
C8_SeasonsPathFollowsAll ==
  \A c \in Calls :
    calls[c].tool = "mlb_get_seasons" =>
      \A i \in RequestsOf(c) :
        /\ requests[i].url =
             MLB_BASE \o (IF /\ "all" \in DOMAIN calls[c].payload
                             /\ calls[c].payload.all \in {B(TRUE), S(<<"true">>)}
                            THEN <<"/", "seasons", "/", "all">>
                            ELSE <<"/", "seasons">>)
        /\ "all" \notin DOMAIN requests[i].params

C8_Witness ==
  \E c \in Calls :
    /\ calls[c].tool = "mlb_get_seasons"
    /\ calls[c].payload = [all |-> B(TRUE)]
    /\ \E i \in RequestsOf(c) :
         /\ requests[i].url = MLB_BASE \o <<"/", "seasons", "/", "all">>
         /\ requests[i].params = EmptyDict

\* C9: the request of mlb_get_all_teams goes to /teams with the query
\* {sportId: 1, season: <year>} and no other key.
C9_AllTeamsQuery ==
  \A c \in Calls :
    calls[c].tool = "mlb_get_all_teams" =>
      \A i \in RequestsOf(c) :
        /\ requests[i].method = "GET"
        /\ requests[i].url = MLB_BASE \o <<"/", "teams">>
        /\ requests[i].params = [sportId |-> I(1),
                                 season |-> I(AsInt(calls[c].payload.year))]

C9_Witness ==
  \E c \in Calls :
    /\ calls[c].tool = "mlb_get_all_teams"
    /\ calls[c].payload = [year |-> I(2023)]
    /\ \E i \in RequestsOf(c) :
         requests[i].params = [sportId |-> I(1), season |-> I(2023)]

\* A dispatch that got as far as its handler's GET.
PassedValidation(c) == Started(c) /\ Registered(c) /\ Validated(c).ok

\* C10: at every moment each dispatch that passed validation has issued
\* exactly one request and every other dispatch none, also after its request
\* failed (error status, transport error) and also when another dispatch has
\* the same tool and payload: n dispatches that passed validation have issued
\* n requests.
C10_NoRetryNoCache ==
  /\ \A c \in Calls :
       Cardinality(RequestsOf(c)) = IF PassedValidation(c) THEN 1 ELSE 0
  /\ Len(requests) = Cardinality({c \in Calls : PassedValidation(c)})

C10_Witness ==
  \E c, d \in Calls :
    /\ c # d
    /\ calls[c].tool = "mlb_get_team_roster" /\ calls[d].tool = calls[c].tool
    /\ calls[d].payload = calls[c].payload
    /\ calls[c].out.kind = "UpstreamError"
    /\ calls[d].out.kind \in {"result", "TransportError"}
    /\ Cardinality(RequestsOf(c)) = 1 /\ Cardinality(RequestsOf(d)) = 1

\* C11: whatever the interleaving of the dispatches in flight, every request
\* of a dispatch is built from that dispatch's payload alone (the handler's
\* GET on its validated payload, carrying nothing that another dispatch's
\* response left in the client), and the outcome of an answered dispatch is
\* decided by its own response alone.
C11_DispatchesIsolated ==
  \A c \in Calls :
    /\ \A i \in RequestsOf(c) :
         /\ RequestParts(requests[i]) = Handler(calls[c].tool, Validated(c).value)
         /\ requests[i].cookies = {}
    /\ Answered(c) =>
         /\ calls[c].out.kind =
              IF ~(200 <= calls[c].res.status /\ calls[c].res.status <= 299)
                THEN "UpstreamError"
              ELSE IF JsonLoads(calls[c].res.body).valid THEN "result"
              ELSE "ParseError"
         /\ calls[c].out.kind = "UpstreamError" =>
              /\ calls[c].out.status = calls[c].res.status
              /\ calls[c].out.body = calls[c].res.body
         /\ calls[c].out.kind = "result" =>
              calls[c].out.value = JsonLoads(calls[c].res.body)

OutcomeKinds == {"result", "UnknownTool", "ValidationError", "UpstreamError", "ParseError"}

\* C12 as stated: every dispatch that was started ends, and it ends in the
\* result or in one of the four errors UnknownTool, ValidationError,
\* UpstreamError and ParseError, which stays its one outcome.
C12_EndsInListedOutcome ==
  /\ [](\A c \in Calls : calls[c].pc = "done" => calls[c].out.kind \in OutcomeKinds)
  /\ [][\A c \in Calls : calls[c].pc = "done" => calls'[c] = calls[c]]_vars
  /\ \A c \in Calls : (calls[c].pc = "awaiting") ~> (calls[c].pc = "done")

\* C12: every dispatch that was started ends, and it ends in exactly one
\* outcome for its caller, which never changes afterwards: the result, one of
\* the four errors UnknownTool, ValidationError, UpstreamError and ParseError,
\* or the transport's error when no response arrived. A dispatch that is not
\* done has no outcome yet, and a done dispatch has a result only for a
\* success response with a JSON body.
C12_EndsInOneOutcome ==
  /\ [](\A c \in Calls :
          /\ calls[c].pc = "done" =>
               calls[c].out.kind \in OutcomeKinds \cup {"TransportError"}
          /\ calls[c].pc # "done" => calls[c].out = NoOutcome
          /\ (calls[c].pc = "done" /\ calls[c].out.kind = "result") =>
               /\ 200 <= calls[c].res.status /\ calls[c].res.status <= 299
               /\ JsonLoads(calls[c].res.body).valid
          /\ (calls[c].pc = "done" /\ calls[c].out.kind = "TransportError") =>
               calls[c].res = NoResponse)
  /\ [][\A c \in Calls : calls[c].pc = "done" => calls'[c] = calls[c]]_vars
  /\ \A c \in Calls : (calls[c].pc = "awaiting") ~> (calls[c].pc = "done")

C12_Witness ==
  \E c, d \in Calls :
    /\ calls[c].pc = "done" /\ calls[c].out.kind = "TransportError"
    /\ Cardinality(RequestsOf(c)) = 1
    /\ calls[d].pc = "done" /\ calls[d].out.kind = "ParseError"

\* C13: in every state the registry is the set of the names the decorators
\* registered at import time, one entry for each registration (the registered
\* names are pairwise distinct): no dispatch, whether it succeeds or fails,
\* adds, removes or replaces an entry.
C13_RegistryFixed ==
  /\ registry = {Registrations[i].name : i \in DOMAIN Registrations}
  /\ Cardinality(registry) = Len(Registrations)
  /\ \A i, j \in DOMAIN Registrations :
       Registrations[i].name = Registrations[j].name => i = j

C13_Witness ==
  /\ calls[1].pc = "done"
  /\ calls[1].tool = "mlb_get_nothing"
  /\ calls[1].out.kind = "UnknownTool"
  /\ "mlb_get_nothing" \notin registry
  /\ "mlb_get_transactions" \in registry
  /\ Cardinality(registry) = Len(Registrations)

\* C14: a dispatch whose response has a success status (200 to 299) and a body
\* that is not a JSON text ends in a ParseError, with no result value.
C14_BadJsonIsParseError ==
  \A c \in Calls :
    (/\ Answered(c)
     /\ 200 <= calls[c].res.status /\ calls[c].res.status <= 299
     /\ ~JsonLoads(calls[c].res.body).valid) =>
      /\ calls[c].out.kind = "ParseError"
      /\ calls[c].out.value = NoValue

C14_Witness ==
  \E c \in Calls :
    /\ calls[c].tool = "mlb_get_player_bio"
    /\ calls[c].pc = "done"
    /\ calls[c].res.status = 200
    /\ calls[c].res.body = "<html>Service Unavailable</html>"
    /\ calls[c].out.kind = "ParseError"

\* C15, for mlb_get_season_by_id and the one optional field of its schema: when
\* the payload gives fields with a value other than None, the query parameters
\* of the request have an entry, under some key, that holds that value (next to
\* the static sportId).
C15_SeasonByIdFieldsSent ==
  \A c \in Calls :
    (/\ calls[c].tool = "mlb_get_season_by_id"
     /\ "fields" \in DOMAIN calls[c].payload
     /\ calls[c].payload["fields"] # Null
     /\ Validated(c).ok) =>
      \A i \in RequestsOf(c) :
        \E k \in DOMAIN requests[i].params :
          requests[i].params[k] = Validated(c).value["fields"]

\* The part of a URL text that is its path: what stands before the first "?"
\* or "#".
PathOf(url) ==
  LET marks == {i \in DOMAIN url : url[i] \in {"?", "#"}}
  IN  IF marks = {} THEN url
      ELSE SubSeq(url, 1, (CHOOSE i \in marks : \A j \in marks : i <= j) - 1)

\* The number of "/" separators in the path of a URL text, after the base.
Segments(url) ==
  Cardinality({i \in DOMAIN PathOf(url) : PathOf(url)[i] = "/"})

\* A validated payload with every text value replaced by a plain word.
Plain(value) ==
  [n \in DOMAIN value |-> IF value[n].t = "str" THEN S(<<"147">>) ELSE value[n]]

\* C16: for every request of a dispatch, whatever text the payload gives for a
\* field that goes into the path (also one with "/", "?" or "#"), the path of
\* the request's URL has as many segments as the path the handler builds for
\* plain values, and the URL has no query or fragment part of its own: the
\* value is encoded and stays one segment.
C16_PathValueStaysOneSegment ==
  \A c \in Calls :
    (Started(c) /\ Registered(c)) =>
      LET v == Validated(c)
      IN  v.ok =>
            \A i \in RequestsOf(c) :
              /\ Segments(requests[i].url) =
                   Segments(Handler(calls[c].tool, Plain(v.value)).url)
              /\ \A k \in DOMAIN requests[i].url : requests[i].url[k] \notin {"?", "#"}

\* C17: no request carries the text of an absent value: no query parameter
\* of a request is None, and the request of an mlb_get_draft dispatch whose
\* payload leaves year out (or gives None for it) has a path that does not end
\* in the text of None nor in an empty segment where the year belongs.
C17_NoAbsentValueSerialized ==
  \A c \in Calls :
    \A i \in RequestsOf(c) :
      /\ \A k \in DOMAIN requests[i].params : requests[i].params[k] # Null
      /\ (/\ calls[c].tool = "mlb_get_draft"
          /\ ("year" \notin DOMAIN calls[c].payload \/ calls[c].payload["year"] = Null)) =>
           requests[i].url[Len(requests[i].url)] \notin {"None", "null", "", "/"}

StaticSportIdsTools ==
  {"mlb_get_highlow_players", "mlb_get_highlow_teams", "mlb_get_team_stats_by_id"}

=============================================================================
